---------------------------- MODULE Spec2Model ----------------------------
(***************************************************************************)
(* Model of the two entry points of ssh-paste-kitten:                      *)
(*   src/smart_paste.py      paste kitten  (handle_result)                 *)
(*   src/ssh_drop_upload.py  drop watcher  (smart_on_drop)                 *)
(*                                                                         *)
(* A Python str is a sequence of one-character strings, so that strip,     *)
(* startswith, split, percent-decoding, quoting and concatenation are      *)
(* computed character by character, as the code computes them.  Optional   *)
(* values are sequences of length 0 (None) or 1.                           *)
(***************************************************************************)
EXTENDS Integers, Sequences, FiniteSets, TLC

VARIABLES window, fs, out, info

vars == <<window, fs, out, info>>

---------------------------------------------------------------------------
(* Python values *)

None == <<>>

Some(x) == <<x>>

\* A cmdline element that is None instead of a str: os.path.basename and
\* str methods raise on it.
NotAStr == <<"<not-a-str>">>

IsStr(x) == \A i \in 1..Len(x) : x[i] # "<not-a-str>"

\* printable ASCII, code points 32..126, in order
Ascii == <<" ","!","\"","#","$","%","&","'","(",")","*","+",",","-",".","/","0","1","2","3","4","5","6","7","8","9",":",";","<","=",">","?","@","A","B","C","D","E","F","G","H","I","J","K","L","M","N","O","P","Q","R","S","T","U","V","W","X","Y","Z","[","\\","]","^","_","<U+0060>","a","b","c","d","e","f","g","h","i","j","k","l","m","n","o","p","q","r","s","t","u","v","w","x","y","z","{","|","}","~">>

\* ord(c) for printable ASCII; every other character counts as U+FFFD
Ord(c) == IF \E k \in 1..Len(Ascii) : Ascii[k] = c
          THEN 31 + (CHOOSE k \in 1..Len(Ascii) : Ascii[k] = c)
          ELSE 65533

Chr(n) == Ascii[n - 31]

\* s[a:] and s[:b] with 0-based Python indices
From(s, a) == SubSeq(s, a + 1, Len(s))

Upto(s, b) == SubSeq(s, 1, b)

startswith(s, p) == Len(s) >= Len(p) /\ SubSeq(s, 1, Len(p)) = p

endswith(s, p) == Len(s) >= Len(p) /\ SubSeq(s, Len(s) - Len(p) + 1, Len(s)) = p

\* c in s, for a one-character c
HasChar(s, c) == \E i \in 1..Len(s) : s[i] = c

\* s.find(p, start): 0-based index of the first occurrence at or after start, -1 if none
find(s, p, start) ==
    LET hits == {i \in start..(Len(s) - Len(p)) : SubSeq(s, i + 1, i + Len(p)) = p}
    IN IF hits = {} THEN -1 ELSE CHOOSE i \in hits : \A j \in hits : i <= j

\* s.rfind(c): 0-based index of the last occurrence, -1 if none
rfind(s, c) ==
    LET hits == {i \in 0..(Len(s) - 1) : s[i + 1] = c}
    IN IF hits = {} THEN -1 ELSE CHOOSE i \in hits : \A j \in hits : i >= j

\* str.lower() on ASCII letters
lower(s) == [i \in 1..Len(s) |->
               IF Ord(s[i]) >= 65 /\ Ord(s[i]) <= 90 THEN Chr(Ord(s[i]) + 32) ELSE s[i]]

Whitespace == {" ", "\t", "\n", "\r", "\f"}

\* str.strip()
strip(s) ==
    LET keep == {i \in 1..Len(s) : s[i] \notin Whitespace}
    IN IF keep = {} THEN <<>>
       ELSE SubSeq(s, CHOOSE i \in keep : \A j \in keep : i <= j,
                      CHOOSE i \in keep : \A j \in keep : i >= j)

RECURSIVE split(_, _)
\* s.split(c) for a one-character separator: always at least one field
split(s, c) ==
    LET i == find(s, <<c>>, 0)
    IN IF i = -1 THEN <<s>> ELSE <<Upto(s, i)>> \o split(From(s, i + 1), c)

RECURSIVE replace(_, _, _)
\* s.replace(c, r) for a one-character c
replace(s, c, r) ==
    IF s = <<>> THEN <<>>
    ELSE (IF Head(s) = c THEN r ELSE <<Head(s)>>) \o replace(Tail(s), c, r)

RECURSIVE join(_, _)
\* sep.join(parts)
join(sep, parts) ==
    IF parts = <<>> THEN <<>>
    ELSE IF Len(parts) = 1 THEN parts[1]
    ELSE parts[1] \o sep \o join(sep, Tail(parts))

\* os.path.basename(p)
basename(p) == From(p, rfind(p, "/") + 1)

---------------------------------------------------------------------------
(* Session classification: smart_paste.is_ssh_window and                   *)
(* ssh_drop_upload.check_ssh_session.  A window is                         *)
(*   [readable |-> BOOLEAN, foreground_processes |-> sequence of procs]    *)
(* (not readable: evaluating window.child.foreground_processes raises);    *)
(* a proc is [pid |-> Nat, mapping |-> BOOLEAN, cmdline |-> sequence],     *)
(* mapping FALSE for a descriptor on which proc.get raises.                *)

kitten_subcommands_mut_any == {<<"s","s","h">>, <<"r","u","n","-","s","h","e","l","l">>, <<"i","c","a","t">>}

\* smart_paste.py 95, ssh_drop_upload.py 120
kitten_subcommands == {<<"s","s","h">>, <<"r","u","n","-","s","h","e","l","l">>}

mosh_commands == {<<"m","o","s","h">>, <<"m","o","s","h","-","c","l","i","e","n","t">>}

\* the result of a host scan: the scan raised, or the host it found (or None)
Scan(raised, host) == [raised |-> raised, host |-> host]

RECURSIVE paste_kitten_host(_)
\* smart_paste.py 99-105: for arg in cmdline[2:], left to right
paste_kitten_host(args) ==
    IF args = <<>> THEN Scan(FALSE, None)
    ELSE LET arg == Head(args)
         IN IF ~IsStr(arg) THEN Scan(TRUE, None)
            ELSE IF ~startswith(arg, <<"-">>) /\ HasChar(arg, "@") THEN Scan(FALSE, Some(arg))
            ELSE IF ~startswith(arg, <<"-">>) /\ HasChar(arg, ".") THEN Scan(FALSE, Some(arg))
            ELSE paste_kitten_host(Tail(args))

RECURSIVE drop_kitten_host(_)
\* ssh_drop_upload.py 124-128
drop_kitten_host(args) ==
    IF args = <<>> THEN Scan(FALSE, None)
    ELSE LET arg == Head(args)
         IN IF ~IsStr(arg) THEN Scan(TRUE, None)
            ELSE IF ~startswith(arg, <<"-">>)
                 THEN IF HasChar(arg, "@") \/ HasChar(arg, ".")
                      THEN Scan(FALSE, Some(arg))
                      ELSE drop_kitten_host(Tail(args))
            ELSE drop_kitten_host(Tail(args))

RECURSIVE ssh_host_mut_leftmost(_)
ssh_host_mut_leftmost(args) ==
    IF args = <<>> THEN Scan(FALSE, None)
    ELSE LET arg == Head(args)
         IN IF ~IsStr(arg) THEN Scan(TRUE, None)
            ELSE IF ~startswith(arg, <<"-">>) THEN Scan(FALSE, Some(arg))
            ELSE ssh_host_mut_leftmost(Tail(args))

RECURSIVE ssh_host(_)
\* for arg in reversed(cmdline[1:]): the scan starts at the last element
ssh_host(args) ==
    IF args = <<>> THEN Scan(FALSE, None)
    ELSE LET arg == args[Len(args)]
         IN IF ~IsStr(arg) THEN Scan(TRUE, None)
            ELSE IF ~startswith(arg, <<"-">>) THEN Scan(FALSE, Some(arg))
            ELSE ssh_host(Upto(args, Len(args) - 1))

RECURSIVE paste_classify(_, _)
\* the loop of is_ssh_window over the processes not yet seen; inf is the dict so far.
\* An exception leaves the loop through `except Exception: pass`, and the dict
\* as it stands then is returned.
paste_classify(procs, inf) ==
    IF procs = <<>> THEN inf
    ELSE LET proc == Head(procs)
             cmdline == proc.cmdline
         IN IF ~proc.mapping THEN inf
            ELSE IF cmdline = <<>> THEN paste_classify(Tail(procs), inf)
            ELSE IF ~IsStr(cmdline[1]) THEN inf
            ELSE LET cmd == lower(basename(cmdline[1]))
                     inf1 == [inf EXCEPT !.pid = Some(proc.pid)]
                 IN IF cmd = <<"k","i","t","t","e","n">>
                    THEN IF Len(cmdline) > 1 /\ cmdline[2] \in kitten_subcommands
                         THEN [inf1 EXCEPT !.is_ssh = TRUE, !.is_kitten_ssh = TRUE,
                                           !.host = paste_kitten_host(From(cmdline, 2)).host]
                         ELSE paste_classify(Tail(procs), inf1)
                    ELSE IF cmd = <<"s","s","h">>
                    THEN [inf1 EXCEPT !.is_ssh = TRUE, !.host = ssh_host(From(cmdline, 1)).host]
                    ELSE IF cmd \in mosh_commands
                    THEN [inf1 EXCEPT !.is_ssh = TRUE]
                    ELSE paste_classify(Tail(procs), inf1)

RECURSIVE Reverse(_)
Reverse(s) == IF s = <<>> THEN <<>> ELSE Append(Reverse(Tail(s)), Head(s))

is_ssh_window_mut_last(w) ==
    LET inf0 == [is_ssh |-> FALSE, is_kitten_ssh |-> FALSE, host |-> None, pid |-> None]
    IN IF ~w.readable THEN inf0 ELSE paste_classify(Reverse(w.foreground_processes), inf0)

is_ssh_window(w) ==
    LET inf0 == [is_ssh |-> FALSE, is_kitten_ssh |-> FALSE, host |-> None, pid |-> None]
    IN IF ~w.readable THEN inf0 ELSE paste_classify(w.foreground_processes, inf0)

RECURSIVE drop_classify(_, _)
\* the loop of check_ssh_session
drop_classify(procs, inf) ==
    IF procs = <<>> THEN inf
    ELSE LET proc == Head(procs)
             cmdline == proc.cmdline
         IN IF ~proc.mapping THEN inf
            ELSE IF cmdline = <<>> THEN drop_classify(Tail(procs), inf)
            ELSE IF ~IsStr(cmdline[1]) THEN inf
            ELSE LET cmd == lower(basename(cmdline[1]))
                 IN IF cmd = <<"k","i","t","t","e","n">>
                    THEN IF Len(cmdline) > 1 /\ cmdline[2] \in kitten_subcommands
                         THEN [inf EXCEPT !.is_ssh = TRUE, !.is_kitten_ssh = TRUE,
                                          !.host = drop_kitten_host(From(cmdline, 2)).host]
                         ELSE drop_classify(Tail(procs), inf)
                    ELSE IF cmd = <<"s","s","h">>
                    THEN [inf EXCEPT !.is_ssh = TRUE, !.host = ssh_host(From(cmdline, 1)).host]
                    ELSE IF cmd \in mosh_commands
                    THEN [inf EXCEPT !.is_ssh = TRUE]
                    ELSE drop_classify(Tail(procs), inf)

check_ssh_session(w) ==
    LET inf0 == [is_ssh |-> FALSE, is_kitten_ssh |-> FALSE, host |-> None]
    IN IF ~w.readable THEN inf0 ELSE drop_classify(w.foreground_processes, inf0)

RECURSIVE raises(_, _)
\* whether the loop of fn (is_ssh_window or check_ssh_session) ends in its
\* `except Exception` clause: on a descriptor that is no mapping, on a cmdline
\* whose first element is None, or on a None met by the host scan
raises(fn, procs) ==
    IF procs = <<>> THEN FALSE
    ELSE LET proc == Head(procs)
             cmdline == proc.cmdline
         IN IF ~proc.mapping THEN TRUE
            ELSE IF cmdline = <<>> THEN raises(fn, Tail(procs))
            ELSE IF ~IsStr(cmdline[1]) THEN TRUE
            ELSE IF lower(basename(cmdline[1])) = <<"k","i","t","t","e","n">>
                 THEN IF Len(cmdline) > 1 /\ cmdline[2] \in kitten_subcommands
                      THEN IF fn = "is_ssh_window"
                           THEN paste_kitten_host(From(cmdline, 2)).raised
                           ELSE drop_kitten_host(From(cmdline, 2)).raised
                      ELSE raises(fn, Tail(procs))
            ELSE IF lower(basename(cmdline[1])) = <<"s","s","h">>
                 THEN ssh_host(From(cmdline, 1)).raised
            ELSE IF lower(basename(cmdline[1])) \in mosh_commands THEN FALSE
            ELSE raises(fn, Tail(procs))

---------------------------------------------------------------------------
(* Path extraction *)

HexDigits == <<"0","1","2","3","4","5","6","7","8","9","a","b","c","d","e","f">>

HexVal(c) == (CHOOSE k \in 1..16 : HexDigits[k] = lower(<<c>>)[1]) - 1

IsHex(c) == \E k \in 1..16 : HexDigits[k] = lower(<<c>>)[1]

\* the character a decoded byte stands for: printable ASCII as itself, the three
\* blanks as themselves, any other byte as one replacement character (the
\* errors='replace' decoding of a byte that is no UTF-8 on its own)
ByteChar(n) ==
    IF n >= 32 /\ n <= 126 THEN Chr(n)
    ELSE IF n = 10 THEN "\n"
    ELSE IF n = 9 THEN "\t"
    ELSE IF n = 13 THEN "\r"
    ELSE "<U+FFFD>"

RECURSIVE unquote(_)
\* urllib.parse.unquote: %XX with two hex digits is decoded, any other % is kept
unquote(s) ==
    IF s = <<>> THEN <<>>
    ELSE IF s[1] = "%" /\ Len(s) >= 3 /\ IsHex(s[2]) /\ IsHex(s[3])
         THEN <<ByteChar(16 * HexVal(s[2]) + HexVal(s[3]))>> \o unquote(From(s, 3))
         ELSE <<s[1]>> \o unquote(Tail(s))

RECURSIVE norm_comps(_, _, _)
\* the loop of posixpath.normpath over the components
norm_comps(comps, new_comps, initial_slashes) ==
    IF comps = <<>> THEN new_comps
    ELSE LET comp == Head(comps)
             n == Len(new_comps)
         IN IF comp = <<>> \/ comp = <<".">>
            THEN norm_comps(Tail(comps), new_comps, initial_slashes)
            ELSE IF comp # <<".",".">> \/ (initial_slashes = 0 /\ n = 0)
                    \/ (n > 0 /\ new_comps[n] = <<".",".">>)
            THEN norm_comps(Tail(comps), Append(new_comps, comp), initial_slashes)
            ELSE IF n > 0
            THEN norm_comps(Tail(comps), Upto(new_comps, n - 1), initial_slashes)
            ELSE norm_comps(Tail(comps), new_comps, initial_slashes)

\* posixpath.normpath
normpath(path) ==
    IF path = <<>> THEN <<".">>
    ELSE LET initial_slashes ==
                 IF ~startswith(path, <<"/">>) THEN 0
                 ELSE IF startswith(path, <<"/","/">>) /\ ~startswith(path, <<"/","/","/">>) THEN 2
                 ELSE 1
             body == join(<<"/">>, norm_comps(split(path, "/"), <<>>, initial_slashes))
             res == [i \in 1..initial_slashes |-> "/"] \o body
         IN IF res = <<>> THEN <<".">> ELSE res

\* os.getcwd() of the terminal process
Cwd == <<"/","w">>

\* os.path.abspath: posixpath.join(os.getcwd(), path) for a relative path, then normpath
abspath(path) ==
    IF startswith(path, <<"/">>) THEN normpath(path)
    ELSE normpath(Cwd \o <<"/">> \o path)

\* os.path.exists on a file system holding the files `files` (absolute, normalized,
\* no symbolic links; a leading // names the root): the empty path does not exist, a file does not exist under a
\* name with a trailing slash
exists(files, path) ==
    /\ path # <<>>
    /\ LET a == abspath(path)
           p == IF startswith(a, <<"/","/">>) THEN Tail(a) ELSE a
       IN \/ p \in files /\ ~endswith(path, <<"/">>)
          \/ \E f \in files : \E i \in 2..Len(f) : f[i] = "/" /\ Upto(f, i - 1) = p
          \/ p = <<"/">>

RECURSIVE extract_lines(_, _)
\* the loop of smart_paste.extract_file_paths over the lines
extract_lines(files, lines) ==
    IF lines = <<>> THEN <<>>
    ELSE LET path0 == strip(Head(lines))
             path1 == IF startswith(path0, <<"f","i","l","e",":","/","/">>) THEN unquote(From(path0, 7)) ELSE path0
             path2 == IF \/ startswith(path1, <<"\"">>) /\ endswith(path1, <<"\"">>)
                         \/ startswith(path1, <<"'">>) /\ endswith(path1, <<"'">>)
                      THEN SubSeq(path1, 2, Len(path1) - 1)
                      ELSE path1
         IN (IF path2 # <<>> /\ exists(files, path2) THEN <<abspath(path2)>> ELSE <<>>)
            \o extract_lines(files, Tail(lines))

\* smart_paste.extract_file_paths
extract_file_paths(files, text) == extract_lines(files, split(strip(text), "\n"))

RECURSIVE parse_uri_lines(_)
parse_uri_lines(lines) ==
    IF lines = <<>> THEN <<>>
    ELSE LET line == strip(Head(lines))
         IN (IF line # <<>> /\ ~startswith(line, <<"#">>) THEN <<line>> ELSE <<>>)
            \o parse_uri_lines(Tail(lines))

\* ssh_drop_upload.parse_uri_list
parse_uri_list(text) == parse_uri_lines(split(strip(text), "\n"))

\* urllib.parse.urlparse of a URL that starts with file://: netloc runs from
\* after the two slashes to the first of / ? #, and an unbalanced [ or ] in it
\* raises ValueError('Invalid IPv6 URL'); path runs on to the first of ? #.
\* Tabs and line breaks inside the URL are removed first.
urlparse(url) ==
    LET u == From(replace(replace(replace(url, "\t", <<>>), "\r", <<>>), "\n", <<>>), 5)
        ends == {i \in 2..Len(u) : i = Len(u) \/ u[i + 1] \in {"/", "?", "#"}}
        delim == CHOOSE i \in ends : \A j \in ends : i <= j
        netloc == SubSeq(u, 3, delim)
        rest == From(u, delim)
        cuts == {i \in 0..Len(rest) : i = Len(rest) \/ rest[i + 1] \in {"?", "#"}}
        cut == CHOOSE i \in cuts : \A j \in cuts : i <= j
    IN [raised |-> HasChar(netloc, "[") # HasChar(netloc, "]"),
        netloc |-> netloc,
        path |-> Upto(rest, cut)]

\* the result of url_to_local_path: it raised, or returned a path or None
PathResult(raised, path) == [raised |-> raised, path |-> path]

\* ssh_drop_upload.url_to_local_path
url_to_local_path(url) ==
    IF startswith(url, <<"f","i","l","e",":","/","/">>)
    THEN LET parsed == urlparse(url)
         IN IF parsed.raised THEN PathResult(TRUE, None)
            ELSE IF parsed.netloc # <<>> /\ parsed.netloc # <<"l","o","c","a","l","h","o","s","t">>
            THEN PathResult(FALSE, None)
            ELSE PathResult(FALSE, Some(unquote(parsed.path)))
    ELSE IF startswith(url, <<"/">>) THEN PathResult(FALSE, Some(url))
    ELSE PathResult(FALSE, None)

---------------------------------------------------------------------------
(* Upload planning: the shared shape of smart_paste.handle_result 158-214  *)
(* and ssh_drop_upload.handle_ssh_upload.                                  *)

upload_dir == <<"/","t","m","p","/","u","p","l","o","a","d","s">>

Digits == <<"0","1","2","3","4","5","6","7","8","9">>

RECURSIVE str(_)
\* str(n) of a natural number, as an f-string formats it
str(n) == IF n < 10 THEN <<Digits[n + 1]>> ELSE str(n \div 10) \o <<Digits[(n % 10) + 1]>>

RECURSIVE poly(_, _, _, _)
poly(s, acc, mult, modulus) ==
    IF s = <<>> THEN acc
    ELSE poly(Tail(s), (acc * mult + Ord(Head(s))) % modulus, mult, modulus)

Hex4(n) == <<HexDigits[((n \div 4096) % 16) + 1], HexDigits[((n \div 256) % 16) + 1],
             HexDigits[((n \div 16) % 16) + 1], HexDigits[(n % 16) + 1]>>

\* hashlib.md5(s.encode()).hexdigest()[:8]: a fixed function from strings to 8
\* lowercase hex digits.  MD5 itself is not computed; a 32-bit digest made of two
\* 16-bit polynomial hashes stands for it.
md5_hexdigest8(s) == Hex4(poly(s, 7, 31, 65521)) \o Hex4(poly(s, 3, 37, 65519))

\* uid = hashlib.md5(f"{fpath}{time.time_ns()}".encode()).hexdigest()[:8]
uid(fpath, t) == md5_hexdigest8(fpath \o str(t))

\* rpath = f"{upload_dir}/{uid}_{fname}", t the value time.time_ns() returned
rpath(fpath, t) == upload_dir \o <<"/">> \o uid(fpath, t) \o <<"_">> \o basename(fpath)

\* remote_paths after the loop over files, ts[i] the i-th reading of the clock
remote_paths(files, ts) == [i \in 1..Len(files) |-> rpath(files[i], ts[i])]

\* smart_paste.py 179-180: the hand-written quoting, inside '...'
paste_escape(s) == replace(s, "'", <<"'","\"","'","\"","'">>)

SafeChars == {Ascii[k] : k \in 1..Len(Ascii)} \cap
             ({Chr(n) : n \in 48..57} \cup {Chr(n) : n \in 65..90} \cup {Chr(n) : n \in 97..122}
              \cup {"_", "@", "%", "+", "=", ":", ",", ".", "/", "-"})

\* shlex.quote
shlex_quote(s) ==
    IF s = <<>> THEN <<"'","'">>
    ELSE IF \A i \in 1..Len(s) : s[i] \in SafeChars THEN s
    ELSE <<"'">> \o replace(s, "'", <<"'","\"","'","\"","'">>) \o <<"'">>

paste_upload_cmd(fpath, rp) ==
    <<"k","i","t","t","e","n"," ","t","r","a","n","s","f","e","r"," ","-","-","d","i","r","e","c","t","i","o","n","=","u","p","l","o","a","d"," ","'">> \o paste_escape(fpath) \o <<"'"," ","'">>
        \o paste_escape(rp) \o <<"'">>

drop_upload_cmd(fpath, rp) ==
    <<"k","i","t","t","e","n"," ","t","r","a","n","s","f","e","r"," ","-","-","d","i","r","e","c","t","i","o","n","=","u","p","l","o","a","d"," ">> \o shlex_quote(fpath) \o <<" ">> \o shlex_quote(rp)

RECURSIVE chain_mut_reversed(_, _)
chain_mut_reversed(full_cmd, upload_cmds) ==
    IF upload_cmds = <<>> THEN full_cmd
    ELSE chain_mut_reversed(full_cmd, Tail(upload_cmds)) \o <<" ","&","&"," ">> \o Head(upload_cmds)

RECURSIVE chain(_, _)
\* for cmd in upload_cmds: full_cmd += f" && {cmd}"
chain(full_cmd, upload_cmds) ==
    IF upload_cmds = <<>> THEN full_cmd
    ELSE chain(full_cmd \o <<" ","&","&"," ">> \o Head(upload_cmds), Tail(upload_cmds))

\* smart_paste.py 169-200: the text pasted in a kitten ssh session
paste_full_cmd(files, ts) ==
    LET rps == remote_paths(files, ts)
        upload_cmds == [i \in 1..Len(files) |-> paste_upload_cmd(files[i], rps[i])]
        paths_str == join(<<" ">>, [i \in 1..Len(rps) |-> <<"'">> \o rps[i] \o <<"'">>])
    IN chain(<<"m","k","d","i","r"," ","-","p"," ">> \o upload_dir, upload_cmds)
           \o <<" ","&","&"," ","e","c","h","o"," ","'","U","p","l","o","a","d","e","d",":"," ">> \o paths_str \o <<"'">> \o <<"\n">>

\* ssh_drop_upload.py 160-186
drop_full_cmd(files, ts) ==
    LET rps == remote_paths(files, ts)
        upload_cmds == [i \in 1..Len(files) |-> drop_upload_cmd(files[i], rps[i])]
        paths_str == join(<<" ">>, [i \in 1..Len(rps) |-> shlex_quote(rps[i])])
    IN chain(<<"m","k","d","i","r"," ","-","p"," ">> \o upload_dir, upload_cmds)
           \o <<" ","&","&"," ","e","c","h","o"," ","'","<U+F8FF>","<U+00FC>","<U+00EC>","<U+00C5>"," ","U","p","l","o","a","d","e","d",":"," ">> \o paths_str \o <<"'">> \o <<"\n">>

\* Optional host, or the placeholder: ssh['host'] or 'host'
host_or(host, placeholder) ==
    IF host = None \/ host[1] = <<>> THEN placeholder ELSE host[1]

\* smart_paste.py 207-214: the two texts pasted in a plain ssh session
paste_plain(files, ssh) ==
    << join(<<" ">>, [i \in 1..Len(files) |-> <<"'">> \o files[i] \o <<"'">>]),
       <<" "," ","#"," ","L","o","c","a","l"," ","p","a","t","h","(","s",")"," ","-"," ","u","p","l","o","a","d"," ","w","i","t","h",":"," ","s","c","p"," ">> \o files[1] \o <<" ">>
           \o host_or(ssh.host, <<"h","o","s","t">>) \o <<":","/","t","m","p","/">> \o <<"\n">> >>

\* ssh_drop_upload.py 191-195
drop_plain(files, ssh_info) ==
    << join(<<" ">>, [i \in 1..Len(files) |-> shlex_quote(files[i])]),
       <<" "," ","#"," ","<U+201A>","<U+00A8>","<U+00DC>","<U+00D4>","<U+220F>","<U+00E8>"," "," ","L","o","c","a","l"," ","p","a","t","h","s"," ","-"," ","u","s","e",":"," ","s","c","p"," ">> \o shlex_quote(files[1]) \o <<" ">>
           \o host_or(ssh_info.host, <<"H","O","S","T">>) \o <<":">> \o upload_dir \o <<"/","\n">> >>

plain_paste_mut_stripped(clipboard) == <<strip(clipboard)>>

\* smart_paste.py 147, 155: window.paste_text(clipboard)
plain_paste(clipboard) == <<clipboard>>

---------------------------------------------------------------------------
(* The environment the handlers read *)

\* processes a window's foreground_processes holds at most
MaxProcs == 2

\* values a reading of time.time_ns() is drawn from: 1..MaxTime
MaxTime == 2

\* command lines of the processes the classifier is run on
CmdLines ==
    { <<<<"s","s","h">>, <<"-","p">>, <<"2","2">>, <<"u","s","e","r","@","b","o","x">>>>,
      <<<<"k","i","t","t","e","n">>, <<"s","s","h">>, <<"u","s","e","r","@","b","o","x">>>>,
      <<<<"k","i","t","t","e","n">>, <<"r","u","n","-","s","h","e","l","l">>, <<"-","p">>, <<"2","2">>, <<"b","o","x",".","l","a","n">>>>,
      <<<<"k","i","t","t","e","n">>, <<"i","c","a","t">>>>,
      <<<<"k","i","t","t","e","n">>, <<"s","s","h">>, NotAStr>>,
      <<<<"/","u","s","r","/","b","i","n","/","S","S","H">>, <<"-","v">>>>,
      <<<<"s","s","h">>>>,
      <<<<"s","s","h">>, NotAStr>>,
      <<<<"m","o","s","h","-","c","l","i","e","n","t">>, <<"b","o","x">>>>,
      <<<<"z","s","h">>>>,
      <<NotAStr>>,
      <<>> }

\* the descriptors of foreground_processes: a mapping with a cmdline (an absent or
\* None cmdline reads as the empty one), or a value proc.get raises on
Descriptors ==
    {[mapping |-> TRUE, cmdline |-> c] : c \in CmdLines}
        \cup {[mapping |-> FALSE, cmdline |-> <<>>]}

\* the sessions the two handlers are run in
SessionDescriptors ==
    {[mapping |-> TRUE, cmdline |-> c] : c \in
        { <<<<"k","i","t","t","e","n">>, <<"s","s","h">>, <<"u","s","e","r","@","b","o","x">>>>,
          <<<<"s","s","h">>, <<"-","p">>, <<"2","2">>, <<"u","s","e","r","@","b","o","x">>>>,
          <<<<"m","o","s","h","-","c","l","i","e","n","t">>, <<"b","o","x">>>>,
          <<<<"z","s","h">>>> }}

\* the files that may exist; Cwd is /w
FsUniverse == {<<"/","t","/","a">>, <<"/","u","'","s","/","a">>, <<"/","w","/","h","/","a">>}

\* what get_clipboard() returns ('' when every tool failed)
ClipboardTexts ==
    { <<>>,
      <<"/","t","/","a">>,
      <<"/","t","/","a","\n","/","t","/","a">>,
      <<" ","f","i","l","e",":","/","/","/","t","/","%","6","1"," ","\n","'","/","u","'","s","/","a","'","\n">>,
      <<"f","i","l","e",":","/","/","h","/","a">>,
      <<"h","/","a">>,
      <<"l","s"," ","-","l"," ","/","t","/","a","\n">>,
      <<"\"","/","t","/",".","/","a","\"","\n","f","i","l","e",":","/","/","l","o","c","a","l","h","o","s","t","/","t","/","a">> }

\* what boss.current_primary_selection_or_clipboard holds (None reads as '')
Selections == {<<>>, <<"/","u","'","s","/","a">>}

\* the bytes under text/uri-list in a drop, "<0xFF>" a byte that is no UTF-8
UriLists ==
    { <<>>,
      <<"f","i","l","e",":","/","/","/","t","/","a","\r","\n">>,
      <<"f","i","l","e",":","/","/","/","t","/","a","\r","\n","f","i","l","e",":","/","/","/","t","/","a","\r","\n">>,
      <<"#"," ","c","\r","\n","f","i","l","e",":","/","/","l","o","c","a","l","h","o","s","t","/","u","'","s","/","a","\r","\n","/","t","/","a">>,
      <<"f","i","l","e",":","/","/","h","/","a","\r","\n">>,
      <<"f","i","l","e",":","/","/","/","w","/","h","/","a","\r","\n","f","i","l","e",":","/","/","[","h","/","a","\r","\n">>,
      <<"f","i","l","e",":","/","/","/","t","/","%","6","1","?","q","#","f","\r","\n">>,
      <<"h","t","t","p",":","/","/","h","/","a","\r","\n">> \o <<"<0xFF>">> }

\* a drop: the mapping from MIME type to bytes, of which only text/uri-list is read
Drops == {[uri_list |-> None]} \cup {[uri_list |-> Some(u)] : u \in UriLists}

TimeReads(n) == [1..n -> 1..MaxTime]

\* bytes.decode('utf-8', 'replace')
decode(b) == [i \in 1..Len(b) |-> IF b[i] = "<0xFF>" THEN "<U+FFFD>" ELSE b[i]]

---------------------------------------------------------------------------
(* State.                                                                  *)
(*  window  the target window: [readable, foreground_processes]            *)
(*  fs      the files that exist                                           *)
(*  out     what the last call of a handler did, Idle between calls        *)
(*  info    what the last call of a classifier returned                    *)

NoInfo == [is_ssh |-> FALSE, is_kitten_ssh |-> FALSE, host |-> None]

Idle == [entry |-> "idle", window_found |-> FALSE, clipboard |-> <<>>,
         drop |-> [uri_list |-> None], files |-> <<>>, classified |-> FALSE,
         ssh |-> NoInfo, remote_paths |-> <<>>, times |-> <<>>, pasted |-> <<>>,
         original |-> <<>>, raised |-> FALSE]

NotCalled == [fn |-> "none", result |-> NoInfo]

Init ==
    /\ window = [readable |-> TRUE, foreground_processes |-> <<>>]
    /\ fs = {}
    /\ out = Idle
    /\ info = NotCalled

Quiet == out.entry = "idle" /\ info.fn = "none"

\* a process joins the foreground processes of the window
Spawn(descriptors) ==
    /\ Quiet
    /\ window.readable
    /\ Len(window.foreground_processes) < MaxProcs
    /\ \E d \in descriptors :
         window' = [window EXCEPT !.foreground_processes =
                       Append(@, [pid |-> 100 + Len(@), mapping |-> d.mapping,
                                  cmdline |-> d.cmdline])]
    /\ UNCHANGED <<fs, out, info>>

\* the last foreground process exits
Exit ==
    /\ Quiet
    /\ window.readable
    /\ window.foreground_processes # <<>>
    /\ window' = [window EXCEPT !.foreground_processes = Upto(@, Len(@) - 1)]
    /\ UNCHANGED <<fs, out, info>>

\* the child is gone: there is no process list any more, and evaluating
\* window.child.foreground_processes raises from now on
ChildGone ==
    /\ Quiet
    /\ window.readable
    /\ window' = [readable |-> FALSE, foreground_processes |-> <<>>]
    /\ UNCHANGED <<fs, out, info>>

Touch ==
    /\ Quiet
    /\ \E f \in FsUniverse \ fs : fs' = fs \cup {f}
    /\ UNCHANGED <<window, out, info>>

Unlink ==
    /\ Quiet
    /\ \E f \in fs : fs' = fs \ {f}
    /\ UNCHANGED <<window, out, info>>

---------------------------------------------------------------------------
(* The handlers *)

\* smart_paste.handle_result, one call: has_window is whether
\* boss.window_id_map holds the target window
handle_result ==
    /\ Quiet
    /\ \E has_window \in BOOLEAN, cb \in ClipboardTexts :
       \E sel \in (IF cb = <<>> THEN Selections ELSE {<<>>}) :
       \E clipboard \in {IF cb # <<>> THEN cb ELSE sel} :
       \E files \in {extract_file_paths(fs, clipboard)} :
       \E ssh \in {is_ssh_window(window)} :
         LET r0 == [Idle EXCEPT !.entry = "paste", !.window_found = has_window]
             r2 == [r0 EXCEPT !.clipboard = clipboard, !.files = files]
             r3 == [r2 EXCEPT !.classified = TRUE, !.ssh = ssh]
         IN IF ~has_window THEN out' = r0
            ELSE IF clipboard = <<>> THEN out' = r0
            ELSE IF files = <<>> THEN out' = [r2 EXCEPT !.pasted = plain_paste(clipboard)]
            ELSE IF ~ssh.is_ssh THEN out' = [r3 EXCEPT !.pasted = plain_paste(clipboard)]
            ELSE IF ssh.is_kitten_ssh
            THEN \E ts \in TimeReads(Len(files)) :
                   out' = [r3 EXCEPT !.times = ts,
                                     !.remote_paths = remote_paths(files, ts),
                                     !.pasted = <<paste_full_cmd(files, ts)>>]
            ELSE out' = [r3 EXCEPT !.pasted = paste_plain(files, ssh)]
    /\ UNCHANGED <<window, fs, info>>

\* ssh_drop_upload.py 55-56: the path is kept if it is non-empty and exists
kept(files, path) ==
    IF path # None /\ path[1] # <<>> /\ exists(files, path[1]) THEN path ELSE <<>>

RECURSIVE local_files(_, _, _)
\* ssh_drop_upload.py 52-56: the loop over urls, acc the paths kept so far;
\* an exception of url_to_local_path ends the handler
local_files(files, urls, acc) ==
    IF urls = <<>> THEN [raised |-> FALSE, files |-> acc]
    ELSE IF url_to_local_path(Head(urls)).raised THEN [raised |-> TRUE, files |-> <<>>]
    ELSE local_files(files, Tail(urls), acc \o kept(files, url_to_local_path(Head(urls)).path))

\* the patched Window.on_drop, one call
smart_on_drop ==
    /\ Quiet
    /\ \E drop \in Drops :
       \E uri_list \in {IF drop.uri_list = None THEN <<>> ELSE drop.uri_list[1]} :
       \E found \in {local_files(fs, parse_uri_list(decode(uri_list)), <<>>)} :
       \E ssh_info \in {check_ssh_session(window)} :
         LET r0 == [Idle EXCEPT !.entry = "drop", !.window_found = TRUE, !.drop = drop]
             r2 == [r0 EXCEPT !.files = found.files]
             r3 == [r2 EXCEPT !.classified = TRUE, !.ssh = ssh_info]
         IN IF uri_list = <<>> THEN out' = [r0 EXCEPT !.original = <<drop>>]
            ELSE IF found.raised THEN out' = [r0 EXCEPT !.raised = TRUE]
            ELSE IF found.files = <<>> THEN out' = [r2 EXCEPT !.original = <<drop>>]
            ELSE IF ~ssh_info.is_ssh THEN out' = [r3 EXCEPT !.original = <<drop>>]
            ELSE IF ssh_info.is_kitten_ssh
            THEN \E ts \in TimeReads(Len(found.files)) :
                   out' = [r3 EXCEPT !.times = ts,
                                     !.remote_paths = remote_paths(found.files, ts),
                                     !.pasted = <<drop_full_cmd(found.files, ts)>>]
            ELSE out' = [r3 EXCEPT !.pasted = drop_plain(found.files, ssh_info)]
    /\ UNCHANGED <<window, fs, info>>

\* the handler has returned; the next event may come
Return ==
    /\ out.entry # "idle"
    /\ out' = Idle
    /\ UNCHANGED <<window, fs, info>>

\* one call of smart_paste.is_ssh_window on the window
CallIsSshWindow ==
    /\ Quiet
    /\ info' = [fn |-> "is_ssh_window", result |-> is_ssh_window(window)]
    /\ UNCHANGED <<window, fs, out>>

\* one call of ssh_drop_upload.check_ssh_session on the window
CallCheckSshSession ==
    /\ Quiet
    /\ info' = [fn |-> "check_ssh_session", result |-> check_ssh_session(window)]
    /\ UNCHANGED <<window, fs, out>>

Returned ==
    /\ info.fn # "none"
    /\ info' = NotCalled
    /\ UNCHANGED <<window, fs, out>>

SpawnSession == Spawn(SessionDescriptors)

SpawnAny == Spawn(Descriptors)

\* the two handlers, in the sessions of SessionDescriptors
Next ==
    \/ SpawnSession
    \/ Exit
    \/ Touch
    \/ Unlink
    \/ handle_result
    \/ smart_on_drop
    \/ Return

Spec == Init /\ [][Next]_vars

\* the two classifiers, on every window built from Descriptors
NextClassify ==
    \/ SpawnAny
    \/ Exit
    \/ ChildGone
    \/ CallIsSshWindow
    \/ CallCheckSshSession
    \/ Returned

SpecClassify == Init /\ [][NextClassify]_vars

---------------------------------------------------------------------------
(* Properties of the classifiers, checked under SpecClassify *)

Procs == window.foreground_processes

\* the family a process belongs to, as the specification names them
Family(proc) ==
    IF ~proc.mapping \/ proc.cmdline = <<>> THEN "none"
    ELSE IF ~IsStr(proc.cmdline[1]) THEN "none"
    ELSE LET name == lower(basename(proc.cmdline[1]))
         IN IF name = <<"k","i","t","t","e","n">>
            THEN IF Len(proc.cmdline) >= 2 /\ proc.cmdline[2] \in {<<"s","s","h">>, <<"r","u","n","-","s","h","e","l","l">>}
                 THEN "wrapper" ELSE "none"
            ELSE IF name = <<"s","s","h">> THEN "shell"
            ELSE IF name = <<"m","o","s","h">> \/ name = <<"m","o","s","h","-","c","l","i","e","n","t">> THEN "multiplexer"
            ELSE "none"

Matching == {i \in 1..Len(Procs) : Family(Procs[i]) # "none"}

FirstMatch == CHOOSE i \in Matching : \A j \in Matching : i <= j

\* every descriptor is a mapping whose cmdline holds strings only
WellTyped ==
    /\ window.readable
    /\ \A i \in 1..Len(Procs) :
         /\ Procs[i].mapping
         /\ \A j \in 1..Len(Procs[i].cmdline) : IsStr(Procs[i].cmdline[j])

Called == info.fn # "none"

CmdLinesAre(cs) ==
    /\ Len(Procs) = Len(cs)
    /\ \A i \in 1..Len(cs) : Procs[i].mapping /\ Procs[i].cmdline = cs[i]

PlainSshExample == <<<<"s","s","h">>, <<"-","p">>, <<"2","2">>, <<"u","s","e","r","@","b","o","x">>>>

KittenSshExample == <<<<"k","i","t","t","e","n">>, <<"s","s","h">>, <<"u","s","e","r","@","b","o","x">>>>

\* the classifier that was called, run on one process alone
Alone(proc) ==
    LET w == [readable |-> TRUE, foreground_processes |-> <<proc>>]
    IN IF info.fn = "is_ssh_window" THEN is_ssh_window(w) ELSE check_ssh_session(w)

\* C1: on a well-typed process list the result of is_ssh_window and of
\* check_ssh_session is the result for the first process that matches a family,
\* whatever follows it: remote, transfer-capable exactly if that process is a
\* kitten ssh / kitten run-shell, with that process's host.  [ssh, kitten ssh]
\* is plain remote, [kitten ssh, ssh] is transfer-capable.
C1_FirstMatchWins ==
    /\ (Called /\ WellTyped /\ Matching # {}) =>
          /\ info.result.is_ssh
          /\ info.result.is_kitten_ssh = (Family(Procs[FirstMatch]) = "wrapper")
          /\ info.result.host = Alone(Procs[FirstMatch]).host
    /\ (Called /\ CmdLinesAre(<<PlainSshExample, KittenSshExample>>)) =>
          info.result.is_ssh /\ ~info.result.is_kitten_ssh
    /\ (Called /\ CmdLinesAre(<<KittenSshExample, PlainSshExample>>)) =>
          info.result.is_ssh /\ info.result.is_kitten_ssh

C1_Witness ==
    /\ info.fn = "is_ssh_window"
    /\ CmdLinesAre(<<PlainSshExample, KittenSshExample>>)
    /\ info.result.is_ssh /\ ~info.result.is_kitten_ssh

\* C3: when no process of the list matches a family (the empty list, empty
\* command lines, a kitten without the ssh or run-shell subcommand), the result
\* is Local: is_ssh false, is_kitten_ssh false, host None.
C3_NoMatchIsLocal ==
    (Called /\ Matching = {}) =>
        /\ ~info.result.is_ssh
        /\ ~info.result.is_kitten_ssh
        /\ info.result.host = None

C3_Witness ==
    /\ Called
    /\ Matching = {}
    /\ CmdLinesAre(<<<<<<"k","i","t","t","e","n">>, <<"i","c","a","t">>>>, <<>>>>)
    /\ ~info.result.is_ssh

\* C4: when the first matching process is a plain ssh, the host is the
\* right-most element of argv[1:] that does not begin with '-', and None when
\* there is none; [ssh, -p, 22, user@box] gives host user@box.
C4_SshHostRightmost ==
    /\ (Called /\ WellTyped /\ Matching # {} /\ Family(Procs[FirstMatch]) = "shell") =>
          LET argv == Procs[FirstMatch].cmdline
              cand == {j \in 2..Len(argv) : argv[j] = <<>> \/ argv[j][1] # "-"}
          IN /\ ~info.result.is_kitten_ssh
             /\ info.result.host =
                  IF cand = {} THEN None
                  ELSE Some(argv[CHOOSE j \in cand : \A k \in cand : j >= k])
    /\ (Called /\ CmdLinesAre(<<PlainSshExample>>)) => info.result.host = Some(<<"u","s","e","r","@","b","o","x">>)

C4_Witness ==
    /\ Called
    /\ Len(Procs) = 2
    /\ Family(Procs[1]) = "none"
    /\ Procs[2].cmdline = PlainSshExample
    /\ info.result.host = Some(<<"u","s","e","r","@","b","o","x">>)

\* C9: if an error is raised while the process list is read or scanned, the
\* host scan of an already recognised ssh or kitten process included, the
\* classifier returns Local: is_ssh false, is_kitten_ssh false, host None.
C9_ErrorMeansLocal ==
    (Called /\ (~window.readable \/ raises(info.fn, Procs))) =>
        /\ ~info.result.is_ssh
        /\ ~info.result.is_kitten_ssh
        /\ info.result.host = None

---------------------------------------------------------------------------
(* Properties of the two handlers, checked under Spec *)

Contains(s, p) == find(s, p, 0) # -1

Handled == out.entry \in {"paste", "drop"}

\* the handler went on to plan an upload in a kitten ssh session
TransferCapable ==
    Handled /\ out.classified /\ out.ssh.is_kitten_ssh /\ out.files # <<>>

\* the handler found files in an ssh or mosh session that is no kitten ssh
PlainRemote ==
    Handled /\ out.classified /\ out.ssh.is_ssh /\ ~out.ssh.is_kitten_ssh
        /\ out.files # <<>>

\* C2: in a kitten ssh session the synthesized remote paths of one plan are
\* pairwise distinct, also for a path that occurs twice and for clock readings
\* that are equal.
C2_RemotePathsDistinct ==
    TransferCapable =>
        /\ Len(out.remote_paths) = Len(out.files)
        /\ \A i, j \in 1..Len(out.remote_paths) :
              i # j => out.remote_paths[i] # out.remote_paths[j]

\* C5: in the paste handler, when the non-empty clipboard text names no existing
\* file, or the session is classified Local, exactly one text is pasted and it is
\* the clipboard text unchanged; with no file the session is not even
\* classified.
C5_PlainPaste ==
    /\ (out.entry = "paste" /\ out.window_found /\ out.clipboard # <<>>
           /\ (out.files = <<>> \/ ~out.ssh.is_ssh)) =>
          /\ out.pasted = <<out.clipboard>>
          /\ out.remote_paths = <<>>
    /\ (out.entry = "paste" /\ out.files = <<>>) => ~out.classified

C5_Witness ==
    /\ out.entry = "paste"
    /\ out.files # <<>>
    /\ out.classified /\ ~out.ssh.is_ssh
    /\ Len(window.foreground_processes) > 0
    /\ out.clipboard # strip(out.clipboard)
    /\ out.pasted = <<out.clipboard>>

\* the places of " && " in a command line, and the steps between them
Seps(cmd) == {i \in 0..(Len(cmd) - 4) : SubSeq(cmd, i + 1, i + 4) = <<" ","&","&"," ">>}

NthSep(cmd, k) ==
    CHOOSE i \in Seps(cmd) : Cardinality({j \in Seps(cmd) : j < i}) = k - 1

Step(cmd, k) ==
    SubSeq(cmd,
           IF k = 1 THEN 1 ELSE NthSep(cmd, k - 1) + 5,
           IF k = Cardinality(Seps(cmd)) + 1 THEN Len(cmd) ELSE NthSep(cmd, k))

\* a word quoted for the shell, in either of the two forms the handlers use
Quoted(entry, s) ==
    IF entry = "paste" THEN <<"'">> \o replace(s, "'", <<"'","\"","'","\"","'">>) \o <<"'">>
    ELSE shlex_quote(s)

\* s is <upload root>/<8 hex digits>_<base name of fpath>
Synthesized(s, fpath) ==
    /\ Len(s) = 13 + 8 + 1 + Len(basename(fpath))
    /\ SubSeq(s, 1, 13) = <<"/","t","m","p","/","u","p","l","o","a","d","s","/">>
    /\ \A i \in 14..21 : \E k \in 1..16 : s[i] = HexDigits[k]
    /\ SubSeq(s, 22, Len(s)) = <<"_">> \o basename(fpath)

\* C6: in a kitten ssh session with files f1..fn exactly one text is pasted:
\* mkdir -p /tmp/uploads, then one kitten transfer --direction=upload per file
\* in the order of the files, each with the file and its own remote path, then
\* one echo of the n remote paths in that order, every step joined to the one
\* before by &&.
C6_TransferSequence ==
    TransferCapable =>
        LET n == Len(out.files)
            cmd == out.pasted[1]
            last == Step(cmd, n + 2)
        IN /\ Len(out.pasted) = 1
           /\ Len(out.remote_paths) = n
           /\ \A i \in 1..n : Synthesized(out.remote_paths[i], out.files[i])
           /\ Cardinality(Seps(cmd)) = n + 1
           /\ Step(cmd, 1) = <<"m","k","d","i","r"," ","-","p"," ","/","t","m","p","/","u","p","l","o","a","d","s">>
           /\ \A i \in 1..n :
                Step(cmd, i + 1) = <<"k","i","t","t","e","n"," ","t","r","a","n","s","f","e","r"," ","-","-","d","i","r","e","c","t","i","o","n","=","u","p","l","o","a","d"," ">>
                                      \o Quoted(out.entry, out.files[i]) \o <<" ">>
                                      \o Quoted(out.entry, out.remote_paths[i])
           /\ startswith(last, <<"e","c","h","o"," ","'">>)
           /\ endswith(last,
                  <<"U","p","l","o","a","d","e","d",":"," ">>
                  \o join(<<" ">>, [i \in 1..n |->
                        IF out.entry = "paste" THEN <<"'">> \o out.remote_paths[i] \o <<"'">>
                        ELSE shlex_quote(out.remote_paths[i])])
                  \o <<"'","\n">>)

C6_Witness ==
    /\ TransferCapable
    /\ Len(out.files) = 2
    /\ out.files[1] # out.files[2]
    /\ Len(out.pasted) = 1
    /\ Cardinality(Seps(out.pasted[1])) = 3

\* C7: in a plain remote session with at least one file both handlers paste two
\* texts: the shell-quoted local paths, then a line that starts with # and
\* whose copy command names <host or placeholder>:/tmp/uploads as destination.
C7_PlainRemoteHint ==
    PlainRemote =>
        LET n == Len(out.files)
        IN /\ Len(out.pasted) = 2
           /\ out.pasted[1] \in
                 { join(<<" ">>, [i \in 1..n |-> Quoted("paste", out.files[i])]),
                   join(<<" ">>, [i \in 1..n |-> Quoted("drop", out.files[i])]) }
           /\ startswith(strip(out.pasted[2]), <<"#">>)
           /\ \E h \in (IF out.ssh.host = None THEN {<<"h","o","s","t">>, <<"H","O","S","T">>}
                        ELSE {out.ssh.host[1]}) :
                 Contains(out.pasted[2], <<" ">> \o h \o <<":","/","t","m","p","/","u","p","l","o","a","d","s">>)

\* the authority of a file:// URI is neither empty nor localhost
ForeignUri(line) ==
    /\ startswith(line, <<"f","i","l","e",":","/","/">>)
    /\ LET rest == From(line, 7)
           slash == find(rest, <<"/">>, 0)
           authority == IF slash = -1 THEN rest ELSE Upto(rest, slash)
       IN authority # <<>> /\ authority # <<"l","o","c","a","l","h","o","s","t">>

AllForeign(lines) == \A i \in 1..Len(lines) : ForeignUri(strip(lines[i]))

\* C8: a file:// URI whose authority is neither empty nor localhost yields no
\* path, in the paste handler and in the drop handler, whatever files exist; and
\* every path that is yielded exists.
C8_NoForeignAuthority ==
    /\ (out.entry = "paste" /\ AllForeign(split(strip(out.clipboard), "\n"))) =>
          out.files = <<>>
    /\ (out.entry = "drop" /\ out.drop.uri_list # None
           /\ AllForeign(split(strip(decode(out.drop.uri_list[1])), "\n"))) =>
          out.files = <<>>
    /\ Handled => \A i \in 1..Len(out.files) : exists(fs, out.files[i])

\* C10: a drop either reaches the original on_drop, once and with the payload
\* unchanged, or is pasted by the handler itself, never both and never neither;
\* the original is reached exactly when there is no text/uri-list entry, or no
\* URI is an existing local file, or the session is not remote.
C10_DropDichotomy ==
    out.entry = "drop" =>
        /\ \/ out.original = <<out.drop>> /\ out.pasted = <<>>
           \/ out.original = <<>> /\ out.pasted # <<>>
        /\ (out.original # <<>>) <=>
              \/ out.drop.uri_list = None
              \/ out.drop.uri_list = Some(<<>>)
              \/ out.files = <<>>
              \/ ~out.ssh.is_ssh

=============================================================================
